---- MODULE Spec2Model ----
(***************************************************************************)
(* Closet compilation (ClosetBuilder::build) and outfit completion         *)
(* (Closet::complete_outfit) of weave-ce.                                  *)
(*                                                                         *)
(* Items and families are opaque tokens with a total order; they are       *)
(* modelled as the integers 1..MaxItem and 1..MaxFamily with the integer   *)
(* order.  A BTreeMap<K, Vec<V>> is a function from keys to sequences; a   *)
(* key that was never inserted maps to the empty sequence (an entry is     *)
(* only ever created together with its first push).                        *)
(***************************************************************************)
EXTENDS Integers, Sequences, FiniteSets, TLC

MaxItem == 3
MaxFamily == 2
MaxAdds == 3
MaxRules == 2
MaxSel == 3
MaxPriority == 3

Items == 1..MaxItem
Families == 1..MaxFamily
NoFamily == 0

VARIABLES contents, item_index, exclusions, inclusions,
          pc, build_result, closet,
          selections, root, outfit_items, outcome,
          tree_root, queue, trees, tpc

vars == <<contents, item_index, exclusions, inclusions,
          pc, build_result, closet,
          selections, root, outfit_items, outcome,
          tree_root, queue, trees, tpc>>

forest == <<tree_root, queue, trees, tpc>>

builder == <<contents, item_index, exclusions, inclusions>>
query == <<selections, root, outfit_items, outcome>>

(***************************************************************************)
(* Sequences helpers                                                       *)
(***************************************************************************)
Range(s) == {s[k] : k \in 1..Len(s)}

Front(s) == SubSeq(s, 1, Len(s) - 1)

RECURSIVE InsertSorted(_, _)
InsertSorted(x, s) ==
    IF s = <<>> THEN <<x>>
    ELSE IF x <= Head(s) THEN <<x>> \o s
    ELSE <<Head(s)>> \o InsertSorted(x, Tail(s))

\* Vec::sort on a vector of items
RECURSIVE Sort(_)
Sort(s) == IF s = <<>> THEN <<>> ELSE InsertSorted(Head(s), Sort(Tail(s)))

RECURSIVE SumLen(_, _)
SumLen(f, k) == IF k = 0 THEN 0 ELSE Len(f[k]) + SumLen(f, k - 1)

(***************************************************************************)
(* Decision-diagram nodes                                                  *)
(***************************************************************************)
FalseLeaf == [kind |-> "Leaf", val |-> FALSE]
TrueLeaf == [kind |-> "Leaf", val |-> TRUE]
NoNode == [kind |-> "None"]

\* branch(item, low, high): returns low when low = high (reduction)
Node_branch(id, low, high) ==
    IF low = high THEN low
    ELSE [kind |-> "Branch", id |-> id, low |-> low, high |-> high]

RECURSIVE Node_not(_)
Node_not(n) ==
    IF n.kind = "Leaf" THEN [kind |-> "Leaf", val |-> ~n.val]
    ELSE Node_branch(n.id, Node_not(n.low), Node_not(n.high))

\* xor of the variable id with the function of n, by Shannon expansion on
\* the top variable (the smaller in item order)
RECURSIVE Node_xor(_, _)
Node_xor(id, n) ==
    IF n.kind = "Leaf" THEN Node_branch(id, n, Node_not(n))
    ELSE IF n.id < id
         THEN Node_branch(n.id, Node_xor(id, n.low), Node_xor(id, n.high))
    ELSE IF n.id = id THEN Node_branch(id, n.low, Node_not(n.high))
    ELSE Node_branch(id, n, Node_not(n))

\* left & right.  The expected root of two_families_with_one_item_each
\* (Branch(jeans, FalseLeaf, Branch(blue, FalseLeaf, TrueLeaf)), jeans of the
\* first family above blue of the second) fixes the expansion on the left
\* operand's variables.
RECURSIVE Node_and(_, _)
Node_and(left, right) ==
    IF left.kind = "Leaf" THEN (IF left.val THEN right ELSE FalseLeaf)
    ELSE IF right.kind = "Leaf" THEN (IF right.val THEN left ELSE FalseLeaf)
    ELSE Node_branch(left.id, Node_and(left.low, right), Node_and(left.high, right))

\* restrict(n, item, value)
RECURSIVE Node_restrict(_, _, _)
Node_restrict(n, id, value) ==
    IF n.kind = "Leaf" THEN n
    ELSE IF n.id = id
         THEN Node_restrict(IF value THEN n.high ELSE n.low, id, value)
    ELSE Node_branch(n.id, Node_restrict(n.low, id, value),
                           Node_restrict(n.high, id, value))

(***************************************************************************)
(* ClosetBuilder                                                           *)
(***************************************************************************)
EmptyMap(keys) == [k \in keys |-> <<>>]

Adds == SumLen(contents, MaxFamily)
\* add_exclusion_rule pushes twice, add_inclusion_rule once
Rules == SumLen(inclusions, MaxItem) + (SumLen(exclusions, MaxItem) \div 2)

Init ==
    /\ contents = EmptyMap(Families)
    /\ item_index = [i \in Items |-> NoFamily]
    /\ exclusions = EmptyMap(Items)
    /\ inclusions = EmptyMap(Items)
    /\ pc = "builder"
    /\ build_result = [tag |-> "None"]
    /\ closet = [item_index |-> [i \in Items |-> NoFamily], root |-> NoNode]
    /\ selections = <<>>
    /\ root = NoNode
    /\ outfit_items = <<>>
    /\ outcome = [tag |-> "None"]
    /\ tree_root = NoNode
    /\ queue = <<>>
    /\ trees = <<>>
    /\ tpc = "idle"

add_item(family, item) ==
    /\ pc = "builder"
    /\ Adds < MaxAdds
    /\ contents' = [contents EXCEPT ![family] = Append(@, item)]
    /\ item_index' = [item_index EXCEPT ![item] = IF @ = NoFamily THEN family ELSE @]
    /\ UNCHANGED <<exclusions, inclusions, pc, build_result, closet, query, forest>>

add_exclusion_rule(selection, exclusion) ==
    /\ pc = "builder"
    /\ Rules < MaxRules
    /\ LET pushed == [exclusions EXCEPT ![selection] = Append(@, exclusion)]
       IN exclusions' = [pushed EXCEPT ![exclusion] = Append(@, selection)]
    /\ UNCHANGED <<contents, item_index, inclusions, pc, build_result, closet, query, forest>>

add_inclusion_rule(selection, inclusion) ==
    /\ pc = "builder"
    /\ Rules < MaxRules
    /\ inclusions' = [inclusions EXCEPT ![selection] = Append(@, inclusion)]
    /\ UNCHANGED <<contents, item_index, exclusions, pc, build_result, closet, query, forest>>

(***************************************************************************)
(* ClosetBuilder::validate                                                 *)
(***************************************************************************)
\* the conflicts of one family's items, in the order of its Vec
RECURSIVE FamilyConflicts(_, _, _)
FamilyConflicts(family, items, idx) ==
    IF items = <<>> THEN <<>>
    ELSE (IF idx[Head(items)] # family
          THEN << <<Head(items), <<idx[Head(items)], family>> >> >>
          ELSE <<>>)
         \o FamilyConflicts(family, Tail(items), idx)

RECURSIVE ConflictsFrom(_, _, _)
ConflictsFrom(family, cont, idx) ==
    IF family > MaxFamily THEN <<>>
    ELSE FamilyConflicts(family, cont[family], idx)
         \o ConflictsFrom(family + 1, cont, idx)

find_conflicting_families(cont, idx) == ConflictsFrom(1, cont, idx)

\* .expect("item ... does not have family") fails for a rule that names an
\* item absent from item_index
RulesPanic(rules, idx) ==
    \E k \in Items :
        /\ rules[k] # <<>>
        /\ \/ idx[k] = NoFamily
           \/ \E j \in 1..Len(rules[k]) : idx[rules[k][j]] = NoFamily

\* the Some(..) members of the HashSet collected for one selection
IllegalOf(rules, idx, selection) ==
    { <<idx[selection], Sort(<<selection, item>>)>> :
        item \in {x \in Range(rules[selection]) : idx[x] = idx[selection]} }

\* a HashSet iterates in an unspecified order
Orders(S) == {s \in [1..Cardinality(S) -> S] : Range(s) = S}

RECURSIVE Flattened(_, _, _)
Flattened(rules, idx, selection) ==
    IF selection > MaxItem THEN {<<>>}
    ELSE {p \o r : p \in Orders(IllegalOf(rules, idx, selection)),
                   r \in Flattened(rules, idx, selection + 1)}

\* Vec::dedup_by(|a, b| a.1 == b.1): drops an element whose item list equals
\* that of the element retained just before it
RECURSIVE dedup_by(_)
dedup_by(s) ==
    IF Len(s) <= 1 THEN s
    ELSE LET d == dedup_by(Front(s))
         IN IF s[Len(s)][2] = d[Len(d)][2] THEN d ELSE Append(d, s[Len(s)])

\* every list find_illegal_rules can return (one per iteration order)
find_illegal_rules(rules, idx) ==
    {dedup_by(s) : s \in Flattened(rules, idx, 1)}

\* variant: the exclusion rules are examined before the inclusion rules
ClosetBuilder_validate_exclusions_first(cont, idx, incs, excs, inc_conflicts, exc_conflicts) ==
    IF find_conflicting_families(cont, idx) # <<>>
    THEN [tag |-> "ConflictingFamilies", list |-> find_conflicting_families(cont, idx)]
    ELSE IF RulesPanic(excs, idx) THEN [tag |-> "Panic"]
    ELSE IF exc_conflicts # <<>>
    THEN [tag |-> "ExclusionError", list |-> exc_conflicts]
    ELSE IF RulesPanic(incs, idx) THEN [tag |-> "Panic"]
    ELSE IF inc_conflicts # <<>>
    THEN [tag |-> "InclusionError", list |-> inc_conflicts]
    ELSE [tag |-> "Ok"]

ClosetBuilder_validate(cont, idx, incs, excs, inc_conflicts, exc_conflicts) ==
    IF find_conflicting_families(cont, idx) # <<>>
    THEN [tag |-> "ConflictingFamilies", list |-> find_conflicting_families(cont, idx)]
    ELSE IF RulesPanic(incs, idx) THEN [tag |-> "Panic"]
    ELSE IF inc_conflicts # <<>>
    THEN [tag |-> "InclusionError", list |-> inc_conflicts]
    ELSE IF RulesPanic(excs, idx) THEN [tag |-> "Panic"]
    ELSE IF exc_conflicts # <<>>
    THEN [tag |-> "ExclusionError", list |-> exc_conflicts]
    ELSE [tag |-> "Ok"]

(***************************************************************************)
(* ClosetBuilder::build                                                    *)
(***************************************************************************)
\* items.iter().fold(FalseLeaf, |left_branch, item| Node::xor(item, left_branch))
RECURSIVE FamilyNode(_)
FamilyNode(items) ==
    IF items = <<>> THEN FalseLeaf
    ELSE Node_xor(items[Len(items)], FamilyNode(Front(items)))

\* .fold(TrueLeaf, |left_branch, family_node| left_branch & family_node)
\* over the families present in contents, in key order
RECURSIVE RootUpTo(_, _)
RootUpTo(family, cont) ==
    IF family = 0 THEN TrueLeaf
    ELSE IF cont[family] = <<>> THEN RootUpTo(family - 1, cont)
    ELSE Node_and(RootUpTo(family - 1, cont), FamilyNode(cont[family]))

BuildRoot(cont) == RootUpTo(MaxFamily, cont)

build ==
    /\ pc = "builder"
    /\ \E inc_conflicts \in find_illegal_rules(inclusions, item_index),
          exc_conflicts \in find_illegal_rules(exclusions, item_index) :
        LET r == ClosetBuilder_validate(contents, item_index, inclusions, exclusions,
                          inc_conflicts, exc_conflicts)
        IN /\ build_result' = r
           /\ closet' = IF r.tag = "Ok"
                        THEN [item_index |-> item_index, root |-> BuildRoot(contents)]
                        ELSE closet
    /\ pc' = "built"
    /\ UNCHANGED <<builder, query, forest>>

(***************************************************************************)
(* Closet::complete_outfit                                                 *)
(***************************************************************************)
get_family(c, item) == c.item_index[item]

\* the empty sequence stands for None
find_unknown_items(c, sel) ==
    LET unknown(item) == get_family(c, item) = NoFamily
    IN SelectSeq(sel, unknown)

\* variant: the filter keeps every family that received a selection
find_duplicate_items_unfiltered(c, sel) ==
    [family \in Families |->
        LET of_family(item) == get_family(c, item) = family
        IN SelectSeq(sel, of_family)]

\* the BTreeMap of the families with more than one selection; a family that
\* is not a key maps to the empty sequence, and the all-empty map is None
find_duplicate_items(c, sel) ==
    [family \in Families |->
        LET of_family(item) == get_family(c, item) = family
            items == SelectSeq(sel, of_family)
        IN IF Len(items) > 1 THEN items ELSE <<>>]

NoDuplicates(dups) == \A family \in Families : dups[family] = <<>>

\* selections.iter().fold(root, |new_root, selection| restrict(new_root, selection, true))
RECURSIVE RestrictAll(_, _)
RestrictAll(n, sel) ==
    IF sel = <<>> THEN n
    ELSE RestrictAll(Node_restrict(n, Head(sel), TRUE), Tail(sel))

\* variant: the selections are reported unsorted
find_conflicting_items_unsorted(c, sel) ==
    IF RestrictAll(c.root, sel) = FalseLeaf
    THEN [some |-> TRUE, items |-> sel]
    ELSE [some |-> FALSE]

find_conflicting_items(c, sel) ==
    IF RestrictAll(c.root, sel) = FalseLeaf
    THEN [some |-> TRUE, items |-> Sort(sel)]
    ELSE [some |-> FALSE]

\* variant: the family check runs before the unknown-item check
validate_duplicates_first(c, sel) ==
    IF ~NoDuplicates(find_duplicate_items(c, sel))
    THEN [tag |-> "MultipleItemsPerFamily", dups |-> find_duplicate_items(c, sel)]
    ELSE IF find_unknown_items(c, sel) # <<>>
    THEN [tag |-> "UnknownItems", items |-> find_unknown_items(c, sel)]
    ELSE IF find_conflicting_items(c, sel).some
    THEN [tag |-> "IncompatibleSelections", items |-> find_conflicting_items(c, sel).items]
    ELSE [tag |-> "Ok"]

validate(c, sel) ==
    IF find_unknown_items(c, sel) # <<>>
    THEN [tag |-> "UnknownItems", items |-> find_unknown_items(c, sel)]
    ELSE IF ~NoDuplicates(find_duplicate_items(c, sel))
    THEN [tag |-> "MultipleItemsPerFamily", dups |-> find_duplicate_items(c, sel)]
    ELSE IF find_conflicting_items(c, sel).some
    THEN [tag |-> "IncompatibleSelections", items |-> find_conflicting_items(c, sel).items]
    ELSE [tag |-> "Ok"]

SelectionSeqs == UNION {[1..k -> Items] : k \in 0..MaxSel}

\* entry of complete_outfit up to the loop: validation, the fold of restrict
\* and the move of selections into outfit_items
complete_outfit(sel) ==
    /\ pc = "built"
    /\ build_result.tag = "Ok"
    /\ selections' = sel
    /\ LET v == validate(closet, sel)
       IN IF v.tag # "Ok"
          THEN /\ outcome' = v
               /\ pc' = "done"
               /\ UNCHANGED <<root, outfit_items>>
          ELSE /\ root' = RestrictAll(closet.root, sel)
               /\ outfit_items' = sel
               /\ pc' = "loop"
               /\ UNCHANGED outcome
    /\ UNCHANGED <<builder, build_result, closet, forest>>

\* variant: the high child is taken without looking at it
walk_branch_always_high ==
    /\ pc = "loop"
    /\ root.kind = "Branch"
    /\ outfit_items' = Append(outfit_items, root.id)
    /\ root' = root.high
    /\ UNCHANGED <<builder, pc, build_result, closet, selections, outcome, forest>>

\* variant: the item is pushed on the low arm too
walk_branch_push_low ==
    /\ pc = "loop"
    /\ root.kind = "Branch"
    /\ outfit_items' = Append(outfit_items, root.id)
    /\ root' = IF root.high = FalseLeaf THEN root.low ELSE root.high
    /\ UNCHANGED <<builder, pc, build_result, closet, selections, outcome, forest>>

\* one iteration of the loop on a Branch
walk_branch ==
    /\ pc = "loop"
    /\ root.kind = "Branch"
    /\ IF root.high = FalseLeaf
       THEN /\ root' = root.low
            /\ UNCHANGED outfit_items
       ELSE /\ outfit_items' = Append(outfit_items, root.id)
            /\ root' = root.high
    /\ UNCHANGED <<builder, pc, build_result, closet, selections, outcome, forest>>

\* the iteration that finds a Leaf: sort and return
walk_leaf ==
    /\ pc = "loop"
    /\ root.kind = "Leaf"
    /\ outfit_items' = Sort(outfit_items)
    /\ outcome' = [tag |-> "Ok", items |-> Sort(outfit_items)]
    /\ pc' = "done"
    /\ UNCHANGED <<builder, build_result, closet, selections, root, forest>>

Next ==
    \/ \E family \in Families, item \in Items : add_item(family, item)
    \/ \E a \in Items : \E b \in Items \ {a} : add_exclusion_rule(a, b)
    \/ \E a \in Items : \E b \in Items \ {a} : add_inclusion_rule(a, b)
    \/ build
    \/ \E sel \in SelectionSeqs : complete_outfit(sel)
    \/ walk_branch
    \/ walk_leaf

Spec == Init /\ [][Next]_vars

(***************************************************************************)
(* zdd2::forest::trees                                                     *)
(***************************************************************************)
Always == [kind |-> "Always"]
Never == [kind |-> "Never"]
Branch(id, low, high) == [kind |-> "Branch", id |-> id, low |-> low, high |-> high]

Priorities == 1..MaxPriority

\* the reduced ordered diagrams whose branches test priorities >= id
RECURSIVE Diagrams(_)
Diagrams(id) ==
    IF id > MaxPriority THEN {Always, Never}
    ELSE LET below == Diagrams(id + 1)
         IN below \cup {Branch(id, pair[1], pair[2]) :
                            pair \in {c \in below \X below : c[1] # c[2]}}

\* let mut queue = vec![(Node::from(root), vec![])], for a root of the forest
InitTrees ==
    /\ contents = EmptyMap(Families)
    /\ item_index = [i \in Items |-> NoFamily]
    /\ exclusions = EmptyMap(Items)
    /\ inclusions = EmptyMap(Items)
    /\ pc = "builder"
    /\ build_result = [tag |-> "None"]
    /\ closet = [item_index |-> [i \in Items |-> NoFamily], root |-> NoNode]
    /\ selections = <<>>
    /\ root = NoNode
    /\ outfit_items = <<>>
    /\ outcome = [tag |-> "None"]
    /\ tree_root \in Diagrams(1)
    /\ queue = << <<tree_root, <<>> >> >>
    /\ trees = <<>>
    /\ tpc = "loop"

\* queue.pop() returns the last element
Popped == queue[Len(queue)]

\* variant: the item is not pushed onto the path of the high child
trees_branch_drops_id ==
    /\ tpc = "loop"
    /\ queue # <<>>
    /\ Popped[1].kind = "Branch"
    /\ queue' = Front(queue) \o << <<Popped[1].low, Popped[2]>>,
                                   <<Popped[1].high, Popped[2]>> >>
    /\ UNCHANGED <<builder, pc, build_result, closet, query, tree_root, trees, tpc>>

\* an iteration that pops a Branch
trees_branch ==
    /\ tpc = "loop"
    /\ queue # <<>>
    /\ Popped[1].kind = "Branch"
    /\ queue' = Front(queue) \o << <<Popped[1].low, Popped[2]>>,
                                   <<Popped[1].high, Append(Popped[2], Popped[1].id)>> >>
    /\ UNCHANGED <<builder, pc, build_result, closet, query, tree_root, trees, tpc>>

\* an iteration that pops Always
trees_always ==
    /\ tpc = "loop"
    /\ queue # <<>>
    /\ Popped[1].kind = "Always"
    /\ trees' = Append(trees, Popped[2])
    /\ queue' = Front(queue)
    /\ UNCHANGED <<builder, pc, build_result, closet, query, tree_root, tpc>>

\* an iteration that pops Never
trees_never ==
    /\ tpc = "loop"
    /\ queue # <<>>
    /\ Popped[1].kind = "Never"
    /\ queue' = Front(queue)
    /\ UNCHANGED <<builder, pc, build_result, closet, query, tree_root, trees, tpc>>

\* queue.pop() is None: the loop ends and trees is returned
trees_return ==
    /\ tpc = "loop"
    /\ queue = <<>>
    /\ tpc' = "done"
    /\ UNCHANGED <<builder, pc, build_result, closet, query, tree_root, queue, trees>>

NextTrees ==
    \/ trees_branch
    \/ trees_always
    \/ trees_never
    \/ trees_return

\* trees is a plain loop of one thread: an iteration that can run does run
SpecTrees == InitTrees /\ [][NextTrees]_vars /\ WF_vars(NextTrees)

(***************************************************************************)
(* Vocabulary of the properties                                            *)
(***************************************************************************)
Count(s, x) == Cardinality({k \in 1..Len(s) : s[k] = x})

SubBag(s, t) == \A x \in Items : Count(s, x) <= Count(t, x)

SameBag(s, t) == \A x \in Items : Count(s, x) = Count(t, x)

IsSorted(s) == \A k \in 1..(Len(s) - 1) : s[k] <= s[k + 1]

\* the value of the diagram under the assignment that selects exactly A
RECURSIVE Accepts(_, _)
Accepts(n, A) ==
    IF n.kind = "Leaf" THEN n.val
    ELSE IF n.id \in A THEN Accepts(n.high, A) ELSE Accepts(n.low, A)

\* restriction by every indexed item: true for the members of A, else false
RECURSIVE RestrictIndexed(_, _, _, _)
RestrictIndexed(n, idx, A, item) ==
    IF item > MaxItem THEN n
    ELSE IF idx[item] = NoFamily THEN RestrictIndexed(n, idx, A, item + 1)
    ELSE RestrictIndexed(Node_restrict(n, item, item \in A), idx, A, item + 1)

Returned == pc = "done"
ReturnedOk == pc = "done" /\ outcome.tag = "Ok"

ClosetFamilies == {family \in Families : contents[family] # <<>>}

ItemsOfFamily(s, family) ==
    {k \in 1..Len(s) : closet.item_index[s[k]] = family}

HasUnknown == \E k \in 1..Len(selections) : closet.item_index[selections[k]] = NoFamily

SharesFamily ==
    \E j \in 1..Len(selections), k \in 1..Len(selections) :
        /\ j < k
        /\ closet.item_index[selections[j]] # NoFamily
        /\ closet.item_index[selections[j]] = closet.item_index[selections[k]]

DeclaredTwice == \E item \in Items :
    Cardinality({family \in Families : item \in Range(contents[family])}) > 1

SameFamilyRule(rules) ==
    \E a \in Items : \E k \in 1..Len(rules[a]) :
        /\ item_index[a] # NoFamily
        /\ item_index[a] = item_index[rules[a][k]]

(***************************************************************************)
(* C1: an outfit returned by complete_outfit holds exactly one item of     *)
(* every family of the closet.                                             *)
(***************************************************************************)
C1_OneItemPerFamily ==
    ReturnedOk =>
        \A family \in ClosetFamilies :
            Cardinality(ItemsOfFamily(outcome.items, family)) = 1

(***************************************************************************)
(* C2: the root built by build accepts no assignment that selects both     *)
(* items of an exclusion rule, nor one that selects the first item of an   *)
(* inclusion rule without the second; so no returned outfit does either.   *)
(***************************************************************************)
RespectsRules(A) ==
    /\ \A a \in Items : \A k \in 1..Len(exclusions[a]) :
          ~(a \in A /\ exclusions[a][k] \in A)
    /\ \A a \in Items : \A k \in 1..Len(inclusions[a]) :
          a \in A => inclusions[a][k] \in A

C2_RootRespectsRules ==
    /\ build_result.tag = "Ok" =>
          \A A \in SUBSET Items : Accepts(closet.root, A) => RespectsRules(A)
    /\ ReturnedOk => RespectsRules(Range(outcome.items))

(***************************************************************************)
(* C3: when complete_outfit returns Ok(O), the walk has ended at the true  *)
(* leaf, and the closet root restricted by every item of O set to true and *)
(* every other indexed item set to false is the true leaf.                 *)
(***************************************************************************)
C3_CompletionSatisfies ==
    ReturnedOk =>
        /\ root = TrueLeaf
        /\ RestrictIndexed(closet.root, closet.item_index,
                           Range(outcome.items), 1) = TrueLeaf

C3_Witness ==
    /\ ReturnedOk
    /\ selections # <<>>
    /\ Len(outcome.items) > Len(selections)
    /\ Cardinality(ClosetFamilies) > 1

(***************************************************************************)
(* C4: the selections, with multiplicity, are part of the returned outfit, *)
(* and every other item of the outfit was pushed by the walk at a branch   *)
(* whose high child is not the false leaf.                                 *)
(***************************************************************************)
C4_CompletionExtends ==
    /\ [](ReturnedOk => SubBag(selections, outcome.items))
    /\ [][/\ (pc = "built" /\ pc' = "loop") => outfit_items' = selections'
          /\ (pc = "loop" /\ pc' = "loop") =>
                \/ outfit_items' = outfit_items
                \/ /\ root.kind = "Branch"
                   /\ root.high # FalseLeaf
                   /\ outfit_items' = Append(outfit_items, root.id)
          /\ (pc = "loop" /\ pc' = "done") =>
                /\ outcome'.tag = "Ok"
                /\ SameBag(outcome'.items, outfit_items)]_vars

C4_Witness ==
    /\ ReturnedOk
    /\ selections # <<>>
    /\ SubBag(selections, outcome.items)
    /\ \E k \in 1..Len(outcome.items) : outcome.items[k] \notin Range(selections)

(***************************************************************************)
(* C5: validation is fail-fast in the order unknown items, several items   *)
(* of one family, conflicting items; one class is reported and no outfit   *)
(* is built when one applies.                                              *)
(***************************************************************************)
C5_ValidationOrder ==
    Returned =>
        /\ HasUnknown => outcome.tag = "UnknownItems"
        /\ (~HasUnknown /\ SharesFamily) => outcome.tag = "MultipleItemsPerFamily"
        /\ outcome.tag = "IncompatibleSelections" => (~HasUnknown /\ ~SharesFamily)
        /\ outcome.tag \in {"UnknownItems", "MultipleItemsPerFamily",
                            "IncompatibleSelections", "Ok"}
        /\ outcome.tag # "Ok" => (outfit_items = <<>> /\ root = NoNode)

C5_Witness ==
    /\ Returned
    /\ HasUnknown
    /\ SharesFamily
    /\ RestrictAll(closet.root, selections) = FalseLeaf
    /\ outcome.tag = "UnknownItems"

RECURSIVE SelectionsOf(_, _)
SelectionsOf(family, sel) ==
    IF sel = <<>> THEN <<>>
    ELSE (IF closet.item_index[Head(sel)] = family THEN <<Head(sel)>> ELSE <<>>)
         \o SelectionsOf(family, Tail(sel))

C7_DuplicatesMap ==
    (Returned /\ ~HasUnknown) =>
        /\ outcome.tag = "MultipleItemsPerFamily" <=> SharesFamily
        /\ outcome.tag = "MultipleItemsPerFamily" =>
              \A family \in Families :
                  outcome.dups[family] =
                      IF Len(SelectionsOf(family, selections)) >= 2
                      THEN SelectionsOf(family, selections)
                      ELSE <<>>

C7_Witness ==
    /\ Returned
    /\ outcome.tag = "MultipleItemsPerFamily"
    /\ \E family \in Families : Len(SelectionsOf(family, selections)) = 1
    /\ \E family \in Families : Len(SelectionsOf(family, selections)) = 2

(***************************************************************************)
(* C8: build returns Ok or an error of the build-time taxonomy for every   *)
(* builder state; it never panics.                                         *)
(***************************************************************************)
C8_BuildNeverPanics ==
    pc # "builder" =>
        build_result.tag \in {"Ok", "ConflictingFamilies",
                              "InclusionError", "ExclusionError"}

(***************************************************************************)
(* C9: build reports one class of error, chosen in the order conflicting   *)
(* families, illegal inclusions, illegal exclusions; Ok only when none is  *)
(* present; no root is constructed when an error is returned.              *)
(***************************************************************************)
C9_BuildErrorOrder ==
    pc # "builder" =>
        /\ DeclaredTwice => build_result.tag = "ConflictingFamilies"
        /\ build_result.tag = "ConflictingFamilies" => DeclaredTwice
        /\ build_result.tag = "InclusionError" =>
              (~DeclaredTwice /\ SameFamilyRule(inclusions))
        /\ build_result.tag = "ExclusionError" =>
              (~DeclaredTwice /\ ~SameFamilyRule(inclusions)
                              /\ SameFamilyRule(exclusions))
        /\ build_result.tag = "Ok" =>
              (~DeclaredTwice /\ ~SameFamilyRule(inclusions)
                              /\ ~SameFamilyRule(exclusions))
        /\ build_result.tag # "Ok" => closet.root = NoNode
        /\ build_result.tag = "Ok" => closet.root # NoNode

C9_Witness ==
    /\ pc # "builder"
    /\ build_result.tag = "InclusionError"
    /\ SameFamilyRule(exclusions)

(***************************************************************************)
(* C10: in the list of an InclusionError or ExclusionError every entry is  *)
(* (family, sorted [a, b]) with a and b of that family, and no unordered   *)
(* pair appears twice.                                                     *)
(***************************************************************************)
C10_IllegalRulesDeduplicated ==
    build_result.tag \in {"InclusionError", "ExclusionError"} =>
        LET list == build_result.list
        IN /\ \A k \in 1..Len(list) :
                 /\ Len(list[k][2]) = 2
                 /\ IsSorted(list[k][2])
                 /\ item_index[list[k][2][1]] = list[k][1]
                 /\ item_index[list[k][2][2]] = list[k][1]
           /\ \A j \in 1..Len(list), k \in 1..Len(list) :
                 j < k => list[j][2] # list[k][2]

(***************************************************************************)
(* C11: on a finite reduced ordered diagram trees(root) terminates, and    *)
(* the sequences it returns are exactly the lists of the items of the high *)
(* edges along the root-to-Always paths, each once, as many as there are   *)
(* such paths.                                                             *)
(***************************************************************************)
\* the lists of high-edge items of the paths from n to Always
RECURSIVE HighLists(_)
HighLists(n) ==
    IF n.kind = "Always" THEN {<<>>}
    ELSE IF n.kind = "Never" THEN {}
    ELSE HighLists(n.low) \cup {<<n.id>> \o path : path \in HighLists(n.high)}

RECURSIVE AlwaysPaths(_)
AlwaysPaths(n) ==
    IF n.kind = "Always" THEN 1
    ELSE IF n.kind = "Never" THEN 0
    ELSE AlwaysPaths(n.low) + AlwaysPaths(n.high)

RECURSIVE HasNever(_)
HasNever(n) ==
    IF n.kind = "Branch" THEN HasNever(n.low) \/ HasNever(n.high)
    ELSE n.kind = "Never"

C11_TreesEnumerates ==
    /\ <>(tpc = "done")
    /\ [](tpc = "done" =>
            /\ Range(trees) = HighLists(tree_root)
            /\ \A j \in 1..Len(trees), k \in 1..Len(trees) :
                  j < k => trees[j] # trees[k]
            /\ Len(trees) = AlwaysPaths(tree_root))

C11_Witness ==
    /\ tpc = "done"
    /\ Len(trees) >= 3
    /\ HasNever(tree_root)
    /\ \E k \in 1..Len(trees) : Len(trees[k]) >= 2

(***************************************************************************)
(* C12: along every path of the root built by build the branch items       *)
(* strictly increase in the item order.                                    *)
(***************************************************************************)
\* every branch below n tests an item greater than id
RECURSIVE OrderedAbove(_, _)
OrderedAbove(n, id) ==
    \/ n.kind = "Leaf"
    \/ /\ n.id > id
       /\ OrderedAbove(n.low, n.id)
       /\ OrderedAbove(n.high, n.id)

C12_RootOrdered ==
    build_result.tag = "Ok" => OrderedAbove(closet.root, 0)

====
